---- MODULE Spec2Model ----
(***************************************************************************)
(* card_turner.py: the Deck card-zone state machine, the ingestion of a    *)
(* worksheet into a list of Deck objects (get_decks) and the four button   *)
(* handlers of App that call into the decks.                               *)
(*                                                                         *)
(* Python values.  A str is a sequence of one-character strings, so ''     *)
(* is << >>.  None is the one-element tuple <<"None">>, which is no str    *)
(* of the alphabet used here.  A worksheet cell value is a record          *)
(* [t, s, n]: t = "None" (empty cell), "str" (text s) or "int" (number n). *)
(***************************************************************************)
EXTENDS Integers, Sequences, FiniteSets, TLC

\* Bounds of the model: the columns of the sheet, and the cells of the sheet
\* below its first row (columns times rows).
MaxCols == 2
MaxCells == 4

\* Bound of SpecFn: the length of the texts stripquotes is applied to.
MaxStrLen == 4

None == <<"None">>
EmptyStr == << >>
QUOTE == "\""

NoneCell == [t |-> "None", s |-> EmptyStr, n |-> 0]
StrCell(str) == [t |-> "str", s |-> str, n |-> 0]
IntCell(k) == [t |-> "int", s |-> EmptyStr, n |-> k]

\* Values a first-row cell takes: empty, a text, the number 0.
Headers == {NoneCell, StrCell(<<"x">>), IntCell(0)}

\* Values a cell below the first row takes: empty, a, b, "", "a", 7.
Items == {NoneCell, StrCell(<<"a">>), StrCell(<<"b">>), StrCell(<<QUOTE, QUOTE>>),
          StrCell(<<QUOTE, "a", QUOTE>>), IntCell(7)}

----------------------------------------------------------------------------
\* Helpers on sequences.

Range(s) == {s[i] : i \in DOMAIN s}

Last(s) == s[Len(s)]

Front(s) == SubSeq(s, 1, Len(s) - 1)

\* The multiset of the elements of s, as a function element -> count.
BagOf(s) == [x \in Range(s) |-> Cardinality({i \in DOMAIN s : s[i] = x})]

\* The bijections of 1..n onto itself.
Perms(n) == {p \in [1..n -> 1..n] : \A i, k \in 1..n : p[i] = p[k] => i = k}

\* All sequences over S of length exactly n.
SeqsOfLen(S, n) == [1..n -> S]

----------------------------------------------------------------------------
\* Python built-ins used by the program.

\* Truth value of a cell value, as `if name:` takes it.
CellTruthy(c) ==
    CASE c.t = "None" -> FALSE
      [] c.t = "str" -> c.s # EmptyStr
      [] c.t = "int" -> c.n # 0

\* Truth value of None or a str, as `if self.table:` takes it.
Truthy(v) == v # None /\ v # EmptyStr

Digit(k) == CASE k = 0 -> "0" [] k = 1 -> "1" [] k = 2 -> "2" [] k = 3 -> "3"
              [] k = 4 -> "4" [] k = 5 -> "5" [] k = 6 -> "6" [] k = 7 -> "7"
              [] k = 8 -> "8" [] k = 9 -> "9"

RECURSIVE Decimal(_)
Decimal(k) == IF k < 10 THEN <<Digit(k)>> ELSE Decimal(k \div 10) \o <<Digit(k % 10)>>

\* str(s) of a non-None cell value.
str(c) == IF c.t = "str" THEN c.s ELSE Decimal(c.n)

RECURSIVE lstrip(_, _)
lstrip(s, ch) == IF s # EmptyStr /\ s[1] = ch THEN lstrip(Tail(s), ch) ELSE s

RECURSIVE rstrip(_, _)
rstrip(s, ch) == IF s # EmptyStr /\ Last(s) = ch THEN rstrip(Front(s), ch) ELSE s

stripquotes(c) == rstrip(lstrip(str(c), QUOTE), QUOTE)

----------------------------------------------------------------------------
\* Colours.  An openpyxl Color is a record: type names the kind, and rgb,
\* theme, tint and indexed are its attributes; Color.value is the attribute
\* type names.

RgbColor(argb) == [type |-> "rgb", rgb |-> argb, theme |-> 0, tint |-> 0, indexed |-> 0]
ThemeColor(th, ti) == [type |-> "theme", rgb |-> EmptyStr, theme |-> th, tint |-> ti, indexed |-> 0]
IndexedColor(k) == [type |-> "indexed", rgb |-> EmptyStr, theme |-> 0, tint |-> 0, indexed |-> k]
AutoColor == [type |-> "auto", rgb |-> EmptyStr, theme |-> 0, tint |-> 0, indexed |-> 0]

\* The str literals of the program.
white == <<"w","h","i","t","e">>
black == <<"b","l","a","c","k">>
NoFill == <<"0","0","0","0","0","0","0","0">>

\* openpyxl.styles.colors.COLOR_INDEX, the indexed palette; Python index k
\* is element k + 1 here.
COLOR_INDEX == <<
    <<"0","0","0","0","0","0","0","0">>,
    <<"0","0","F","F","F","F","F","F">>,
    <<"0","0","F","F","0","0","0","0">>,
    <<"0","0","0","0","F","F","0","0">>,
    <<"0","0","0","0","0","0","F","F">>,
    <<"0","0","F","F","F","F","0","0">>,
    <<"0","0","F","F","0","0","F","F">>,
    <<"0","0","0","0","F","F","F","F">>,
    <<"0","0","0","0","0","0","0","0">>,
    <<"0","0","F","F","F","F","F","F">>,
    <<"0","0","F","F","0","0","0","0">>,
    <<"0","0","0","0","F","F","0","0">>,
    <<"0","0","0","0","0","0","F","F">>,
    <<"0","0","F","F","F","F","0","0">>,
    <<"0","0","F","F","0","0","F","F">>,
    <<"0","0","0","0","F","F","F","F">>,
    <<"0","0","8","0","0","0","0","0">>,
    <<"0","0","0","0","8","0","0","0">>,
    <<"0","0","0","0","0","0","8","0">>,
    <<"0","0","8","0","8","0","0","0">>,
    <<"0","0","8","0","0","0","8","0">>,
    <<"0","0","0","0","8","0","8","0">>,
    <<"0","0","C","0","C","0","C","0">>,
    <<"0","0","8","0","8","0","8","0">>,
    <<"0","0","9","9","9","9","F","F">>,
    <<"0","0","9","9","3","3","6","6">>,
    <<"0","0","F","F","F","F","C","C">>,
    <<"0","0","C","C","F","F","F","F">>,
    <<"0","0","6","6","0","0","6","6">>,
    <<"0","0","F","F","8","0","8","0">>,
    <<"0","0","0","0","6","6","C","C">>,
    <<"0","0","C","C","C","C","F","F">>,
    <<"0","0","0","0","0","0","8","0">>,
    <<"0","0","F","F","0","0","F","F">>,
    <<"0","0","F","F","F","F","0","0">>,
    <<"0","0","0","0","F","F","F","F">>,
    <<"0","0","8","0","0","0","8","0">>,
    <<"0","0","8","0","0","0","0","0">>,
    <<"0","0","0","0","8","0","8","0">>,
    <<"0","0","0","0","0","0","F","F">>,
    <<"0","0","0","0","C","C","F","F">>,
    <<"0","0","C","C","F","F","F","F">>,
    <<"0","0","C","C","F","F","C","C">>,
    <<"0","0","F","F","F","F","9","9">>,
    <<"0","0","9","9","C","C","F","F">>,
    <<"0","0","F","F","9","9","C","C">>,
    <<"0","0","C","C","9","9","F","F">>,
    <<"0","0","F","F","C","C","9","9">>,
    <<"0","0","3","3","6","6","F","F">>,
    <<"0","0","3","3","C","C","C","C">>,
    <<"0","0","9","9","C","C","0","0">>,
    <<"0","0","F","F","C","C","0","0">>,
    <<"0","0","F","F","9","9","0","0">>,
    <<"0","0","F","F","6","6","0","0">>,
    <<"0","0","6","6","6","6","9","9">>,
    <<"0","0","9","6","9","6","9","6">>,
    <<"0","0","0","0","3","3","6","6">>,
    <<"0","0","3","3","9","9","6","6">>,
    <<"0","0","0","0","3","3","0","0">>,
    <<"0","0","3","3","3","3","0","0">>,
    <<"0","0","9","9","3","3","0","0">>,
    <<"0","0","9","9","3","3","6","6">>,
    <<"0","0","3","3","3","3","9","9">>,
    <<"0","0","3","3","3","3","3","3">> >>

\* s[-k:]
Suffix(s, k) == IF Len(s) <= k THEN s ELSE SubSeq(s, Len(s) - k + 1, Len(s))

\* The result of a call that returns val or, with exc, raises.
Result(val, exc) == [val |-> val, exc |-> exc]

\* The last line of get_color: 'white' if argb == '00000000' else '#' + argb[-6:]
\* with the test made on the six colour digits alone.
strip_alpha_rgb_only(argb) ==
    IF Suffix(argb, 6) = Suffix(NoFill, 6) THEN white ELSE <<"#">> \o Suffix(argb, 6)

\* The last line of get_color: 'white' if argb == '00000000' else '#' + argb[-6:]
strip_alpha(argb) == IF argb = NoFill THEN white ELSE <<"#">> \o Suffix(argb, 6)

\* get_color that takes a colour of an unknown kind for no colour: 'white'.
get_color_default(c, themed) ==
    CASE c.type = "rgb" -> Result(strip_alpha(c.rgb), FALSE)
      [] c.type = "theme" -> Result(strip_alpha(themed), FALSE)
      [] c.type = "indexed" ->
            IF c.indexed + 1 \in DOMAIN COLOR_INDEX
            THEN Result(strip_alpha(COLOR_INDEX[c.indexed + 1]), FALSE)
            ELSE Result(None, TRUE)
      [] OTHER -> Result(white, FALSE)

\* get_color(wb, c); themed is what theme_and_tint_to_rgb(wb, c.theme, c.tint)
\* returns for c.
get_color(c, themed) ==
    CASE c.type = "rgb" -> Result(strip_alpha(c.rgb), FALSE)
      [] c.type = "theme" -> Result(strip_alpha(themed), FALSE)
      [] c.type = "indexed" ->
            IF c.indexed + 1 \in DOMAIN COLOR_INDEX
            THEN Result(strip_alpha(COLOR_INDEX[c.indexed + 1]), FALSE)
            ELSE Result(None, TRUE)         \* IndexError
      [] OTHER -> Result(None, TRUE)        \* Exception('Unknown Excel color type')

\* The colours a first-row cell's font and fill take during ingestion: an
\* opaque black, no fill, and a colour of the kind auto.
HeaderFonts == {RgbColor(<<"F","F","0","0","0","0","0","0">>), AutoColor}
HeaderFills == {RgbColor(NoFill), AutoColor}

\* The themed argument of get_color for a colour that is no theme colour.
NoTheme == EmptyStr

----------------------------------------------------------------------------
\* class Deck.  A deck object is a record; orig and shuffles are ghost fields:
\* the multiset of the cards added at construction, and the number of calls
\* of shuffle.

NewDeck(name, color, textcolor) ==
    [name |-> name, cards |-> << >>, discards |-> << >>, table |-> None,
     color |-> color, textcolor |-> textcolor,
     orig |-> BagOf(<< >>), shuffles |-> 0]

\* Deck.add with a str argument, once per element of cs.
RECURSIVE AddAll(_, _)
AddAll(dk, cs) ==
    IF cs = << >> THEN dk
    ELSE AddAll([dk EXCEPT !.cards = Append(@, cs[1])], Tail(cs))

label(c) == IF c = None THEN EmptyStr ELSE c

\* The outcome of a call on a deck: the deck afterwards, the value returned
\* and whether an exception leaves the call.
Outcome(dk, r, e) == [deck |-> dk, ret |-> r, exc |-> e]

discard(dk) ==
    IF Truthy(dk.table)
    THEN LET after == [dk EXCEPT !.discards = Append(@, dk.table), !.table = None]
         IN Outcome(after, label(after.table), FALSE)
    ELSE Outcome(dk, None, FALSE)

\* undraw that puts the card back at the other end of the draw pile.
undraw_front(dk) ==
    LET after == IF Truthy(dk.table)
                 THEN [dk EXCEPT !.cards = <<dk.table>> \o @, !.table = None]
                 ELSE dk
    IN Outcome(after, label(after.table), FALSE)

undraw(dk) ==
    LET after == IF Truthy(dk.table)
                 THEN [dk EXCEPT !.cards = Append(@, dk.table), !.table = None]
                 ELSE dk
    IN Outcome(after, label(after.table), FALSE)

\* FinallyReturn with the exception of the try block left to propagate, as a
\* finally clause without the return does.
FinallyReturn_propagate(dk, e) == Outcome(dk, label(dk.table), e)

\* `finally: return self.label(self.table)`: the return in the finally clause
\* drops an exception raised in the try block.
FinallyReturn(dk, e) == Outcome(dk, label(dk.table), FALSE)

\* draw that turns the discards over into the draw pile when the draw pile
\* is exhausted.
draw_recycle(dk) ==
    LET a == discard(dk).deck
        b == IF a.cards = << >> THEN [a EXCEPT !.cards = a.discards, !.discards = << >>]
             ELSE a
    IN IF b.cards = << >>
       THEN FinallyReturn(b, TRUE)
       ELSE FinallyReturn([b EXCEPT !.table = Last(b.cards), !.cards = Front(b.cards)],
                          FALSE)

draw(dk) ==
    LET a == discard(dk).deck
    IN IF a.cards = << >>
       THEN FinallyReturn(a, TRUE)       \* list.pop() raises IndexError
       ELSE FinallyReturn([a EXCEPT !.table = Last(a.cards), !.cards = Front(a.cards)],
                          FALSE)

\* undiscard that stores the label of the popped card, '' when there is none.
undiscard_label(dk) ==
    LET a == undraw(dk).deck
    IN IF a.discards = << >>
       THEN FinallyReturn([a EXCEPT !.table = label(None)], FALSE)
       ELSE FinallyReturn([a EXCEPT !.table = Last(a.discards),
                                    !.discards = Front(a.discards)],
                          FALSE)

undiscard(dk) ==
    LET a == undraw(dk).deck
    IN IF a.discards = << >>
       THEN FinallyReturn(a, TRUE)       \* list.pop() raises IndexError
       ELSE FinallyReturn([a EXCEPT !.table = Last(a.discards),
                                    !.discards = Front(a.discards)],
                          FALSE)

\* Deck.shuffle under the permutations p of cards and q of discards.
shuffle(dk, p, q) ==
    [dk EXCEPT !.cards = [i \in 1..Len(dk.cards) |-> dk.cards[p[i]]],
               !.discards = [i \in 1..Len(dk.discards) |-> dk.discards[q[i]]],
               !.shuffles = @ + 1]

----------------------------------------------------------------------------
VARIABLES
    pc,          \* "ingest": in get_decks; "run": in App's mainloop; "failed";
                 \* "fn": see SpecFn
    max_column,  \* ws.max_column
    max_row,     \* ws.max_row - 1: rows below the header row
    j,           \* get_decks: the column read next
    heads,       \* the first-row cells read so far (ghost)
    column,      \* the cells below the first row of the column read last,
                 \* << >> once get_decks has returned (ghost)
    d,           \* get_decks: the local d, 0 while unbound, else an object id
    heap,        \* the Deck objects constructed so far, by object id
    decks,       \* the list decks: object ids
    lbl,         \* App: the text of the table label lbl2 of each panel
    lastOp,      \* the handler that ran last, "none" before the first (ghost)
    num,         \* its deck index (ghost)
    before,      \* the deck it acted on, as it was before the call (ghost)
    before2,     \* see handle_undraw (ghost)
    streak,      \* see handle_draw (ghost)
    ret,         \* the value its Deck call returned
    raised,      \* whether its Deck call raised
    arg,         \* SpecFn: the argument of the function called last
    res          \* SpecFn: its result

vars == <<pc, max_column, max_row, j, heads, column, d, heap, decks, lbl,
          lastOp, num, before, before2, streak, ret, raised, arg, res>>

\* No deck: the value of before and before2 while they hold nothing.
NoDeck == NewDeck(NoneCell, white, black)

\* No streak: the value of streak while it holds nothing.
NoStreak == [num |-> 0, first |-> NoDeck, rets |-> << >>]

Init ==
    /\ pc = "ingest"
    /\ max_column \in 1..MaxCols
    /\ max_row \in {r \in 0..MaxCells : max_column * r <= MaxCells}
    /\ j = 1
    /\ heads = << >>
    /\ column = << >>
    /\ d = 0
    /\ heap = << >>
    /\ decks = << >>
    /\ lbl = << >>
    /\ lastOp = "none"
    /\ num = 0
    /\ before = NoDeck
    /\ before2 = NoDeck
    /\ streak = NoStreak
    /\ ret = None
    /\ raised = FALSE
    /\ arg = None
    /\ res = None

\* The cards of one column, with the cells whose label is '' left out as
\* `if item:` on the stripped label would.
RECURSIVE ColumnCards_truthy(_)
ColumnCards_truthy(col) ==
    IF col = << >> THEN << >>
    ELSE (IF col[1] # NoneCell /\ stripquotes(col[1]) # EmptyStr
          THEN <<stripquotes(col[1])>> ELSE << >>)
         \o ColumnCards_truthy(Tail(col))

\* The cards of one column: stripquotes of every cell that is not None.
RECURSIVE ColumnCards(_)
ColumnCards(col) ==
    IF col = << >> THEN << >>
    ELSE (IF col[1] # NoneCell THEN <<stripquotes(col[1])>> ELSE << >>)
         \o ColumnCards(Tail(col))

\* One pass of the loop over the columns in get_decks, for the first-row cell
\* with the value name and the colours font and fill, and the cells col below
\* it; p is the permutation shuffle draws.
get_decks_column(name, font, fill, col, p) ==
    LET text_color == get_color(font, NoTheme)
        bg_color == get_color(fill, NoTheme)
        cs == ColumnCards(col)
        filled == AddAll(NewDeck(name, bg_color.val, text_color.val), cs)
        dk == shuffle([filled EXCEPT !.orig = BagOf(cs)], p, <<>>)
        d1 == IF CellTruthy(name) THEN Len(heap) + 1 ELSE d
    IN /\ heads' = Append(heads, [value |-> name, font |-> font, fill |-> fill])
       /\ column' = col
       /\ j' = j + 1
       /\ IF CellTruthy(name) /\ (text_color.exc \/ bg_color.exc)
          THEN /\ pc' = "failed"        \* get_color raises
               /\ UNCHANGED <<heap, d, decks>>
          ELSE /\ heap' = IF CellTruthy(name) THEN Append(heap, dk) ELSE heap
               /\ d' = d1
               /\ IF d1 = 0
                  THEN /\ pc' = "failed"        \* decks.append(d): d is unbound
                       /\ decks' = decks
                  ELSE /\ pc' = pc
                       /\ decks' = Append(decks, d1)

IngestColumn ==
    /\ pc = "ingest"
    /\ j <= max_column
    /\ \E col \in SeqsOfLen(Items, max_row) :
         \E p \in Perms(Len(ColumnCards(col))) :
            \E name \in Headers, font \in HeaderFonts, fill \in HeaderFills :
               get_decks_column(name, font, fill, col, p)
    /\ UNCHANGED <<max_column, max_row, lbl, lastOp, num, before, before2, streak,
                   ret, raised, arg, res>>

\* get_decks returns and App(title, decks, bg) builds one panel per entry of
\* decks, its table label created with text=None, and enters the mainloop.
StartApp ==
    /\ pc = "ingest"
    /\ j > max_column
    /\ pc' = "run"
    /\ lbl' = [i \in 1..Len(decks) |-> EmptyStr]
    /\ column' = << >>
    /\ UNCHANGED <<max_column, max_row, j, heads, d, heap, decks,
                   lastOp, num, before, before2, streak, ret, raised, arg, res>>

\* lbl['text'] = c: tkinter leaves out an option whose value is None, so the
\* text is left as it was.
SetText(old, c) == IF c = None THEN old ELSE c

\* A button handler: the Deck call out on self.decks[i], then lbl['text'] = c.
Handle(op, i, out, b2, st) ==
    /\ pc = "run"
    /\ heap' = [heap EXCEPT ![decks[i]] = out.deck]
    /\ lbl' = IF out.exc THEN lbl ELSE [lbl EXCEPT ![i] = SetText(@, out.ret)]
    /\ lastOp' = op
    /\ num' = i
    /\ before' = heap[decks[i]]
    /\ before2' = b2
    /\ streak' = st
    /\ ret' = out.ret
    /\ raised' = out.exc
    /\ UNCHANGED <<pc, max_column, max_row, j, heads, column, d, decks, arg, res>>

\* streak records the draws while no handler but handle_draw of one and the
\* same panel has run since the start: the deck as it was at the start and
\* the values the draws returned, up to one draw more than the deck had cards.
NextStreak(i, r) ==
    IF lastOp = "none"
    THEN [num |-> i, first |-> heap[decks[i]], rets |-> <<r>>]
    ELSE IF streak.num = i /\ Len(streak.rets) <= Len(streak.first.cards)
         THEN [streak EXCEPT !.rets = Append(@, r)]
         ELSE NoStreak

handle_draw ==
    \E i \in 1..Len(decks) :
        Handle("draw", i, draw(heap[decks[i]]), NoDeck,
               NextStreak(i, draw(heap[decks[i]]).ret))

\* before2 keeps the deck as it was before a draw that this undraw follows
\* directly on the same deck.
handle_undraw ==
    \E i \in 1..Len(decks) :
        Handle("undraw", i, undraw(heap[decks[i]]),
               IF lastOp = "draw" /\ num = i THEN before ELSE NoDeck, NoStreak)

handle_discard ==
    \E i \in 1..Len(decks) :
        Handle("discard", i, discard(heap[decks[i]]), NoDeck, NoStreak)

handle_undiscard ==
    \E i \in 1..Len(decks) :
        Handle("undiscard", i, undiscard(heap[decks[i]]), NoDeck, NoStreak)

Next ==
    \/ IngestColumn
    \/ StartApp
    \/ handle_draw
    \/ handle_undraw
    \/ handle_discard
    \/ handle_undiscard

Spec == Init /\ [][Next]_vars

----------------------------------------------------------------------------
\* SpecFn: stripquotes and get_color applied to arguments of bounded sets.

\* The texts over the quote character and a of length up to MaxStrLen.
Texts == UNION {SeqsOfLen({QUOTE, "a"}, n) : n \in 0..MaxStrLen}

\* The cell values stripquotes is applied to.
StripInputs == {StrCell(t) : t \in Texts} \cup {IntCell(0), IntCell(7), IntCell(12)}

\* The values theme_and_tint_to_rgb returns: an RGB value.
ThemeResults == {<<"0","0","0","0","0","0">>, <<"F","F","1","0","2","0","3","0">>}

\* The colours get_color is applied to: ARGB values over the digits 0 and F
\* and 00102030, every palette index and the two after the palette, theme
\* colours, and a colour of the kind auto.
ColorInputs ==
    {RgbColor(a) : a \in SeqsOfLen({"0", "F"}, 8)}
    \cup {RgbColor(<<"0","0","1","0","2","0","3","0">>)}
    \cup {IndexedColor(k) : k \in 0..(Len(COLOR_INDEX) + 1)}
    \cup {ThemeColor(th, 0) : th \in 0..1}
    \cup {AutoColor}

InitFn ==
    /\ pc = "fn"
    /\ max_column = 1
    /\ max_row = 0
    /\ j = 1
    /\ heads = << >>
    /\ column = << >>
    /\ d = 0
    /\ heap = << >>
    /\ decks = << >>
    /\ lbl = << >>
    /\ lastOp = "none"
    /\ num = 0
    /\ before = NoDeck
    /\ before2 = NoDeck
    /\ streak = NoStreak
    /\ ret = None
    /\ raised = FALSE
    /\ arg = None
    /\ res = None

call_stripquotes ==
    /\ pc = "fn"
    /\ \E c \in StripInputs :
         /\ arg' = c
         /\ res' = stripquotes(c)
    /\ lastOp' = "stripquotes"
    /\ UNCHANGED <<pc, max_column, max_row, j, heads, column, d, heap, decks, lbl,
                   num, before, before2, streak, ret, raised>>

call_get_color ==
    /\ pc = "fn"
    /\ \E c \in ColorInputs, themed \in ThemeResults :
         /\ arg' = c
         /\ res' = get_color(c, themed)
    /\ lastOp' = "get_color"
    /\ UNCHANGED <<pc, max_column, max_row, j, heads, column, d, heap, decks, lbl,
                   num, before, before2, streak, ret, raised>>

NextFn ==
    \/ call_stripquotes
    \/ call_get_color

SpecFn == InitFn /\ [][NextFn]_vars

----------------------------------------------------------------------------
\* Definitions the properties below share.

\* The deck the last handler acted on, as it is now.
now == heap[decks[num]]

\* The cards of the table of dk: none or one.
TableSeq(dk) == IF dk.table = None THEN << >> ELSE <<dk.table>>

\* All cards of dk over its three zones.
Zones(dk) == dk.cards \o TableSeq(dk) \o dk.discards

\* What a call that leaves dk behind reports: the label on the table, or ''.
Shown(dk) == IF dk.table = None THEN EmptyStr ELSE dk.table

\* C1. Conservation: in every deck, the multiset of the cards of drawPile,
\* table and discardPile is the multiset of the cards the deck was built from.
C1_Conservation ==
    \A o \in DOMAIN heap : BagOf(Zones(heap[o])) = heap[o].orig

\* C2. discard() returns '' in every state; with a card on the table it moves
\* that card to the tail of discardPile and clears the table, with an empty
\* table it changes nothing; drawPile is unchanged in both cases.
C2_DiscardReturnsEmpty ==
    lastOp = "discard" =>
        /\ ret = EmptyStr
        /\ now.cards = before.cards
        /\ now.table = None
        /\ now.discards = before.discards \o TableSeq(before)

\* C3. Ingestion does not fail on an empty first-row cell, and the collection
\* holds one Deck per non-empty first-row cell: its length is the number of
\* non-empty first-row cells and no Deck is in it twice.
C3_OneDeckPerHeader ==
    /\ pc # "failed"
    /\ pc = "run" =>
          /\ Len(decks) = Cardinality({c \in DOMAIN heads : heads[c].value # NoneCell})
          /\ \A a, b \in DOMAIN decks : decks[a] = decks[b] => a = b

\* C4. draw() moves the table card, if any, to the tail of discardPile; then
\* it moves the last card of drawPile, if any, to the table, and else leaves
\* the table empty; it returns the label on the table, '' if there is none.
C4_Draw ==
    lastOp = "draw" =>
        /\ now.discards = before.discards \o TableSeq(before)
        /\ IF before.cards # << >>
           THEN now.table = Last(before.cards) /\ now.cards = Front(before.cards)
           ELSE now.table = None /\ now.cards = before.cards
        /\ ret = Shown(now)

\* C5. undiscard() moves the table card, if any, back to drawPile; then it
\* moves the last card of discardPile, if any, to the table, and else leaves
\* the table empty; it returns the label on the table, '' if there is none.
C5_Undiscard ==
    lastOp = "undiscard" =>
        /\ now.cards = before.cards \o TableSeq(before)
        /\ IF before.discards # << >>
           THEN /\ now.table = Last(before.discards)
                /\ now.discards = Front(before.discards)
           ELSE now.table = None /\ now.discards = before.discards
        /\ ret = Shown(now)

\* C6. undraw() moves the table card, if any, into drawPile and clears the
\* table; the cards that were in drawPile keep their order, discardPile is
\* unchanged, and the call returns ''.
C6_Undraw ==
    lastOp = "undraw" =>
        /\ now.table = None
        /\ Len(now.cards) = Len(before.cards) + Len(TableSeq(before))
        /\ \E k \in 0..Len(before.cards) :
              now.cards = SubSeq(before.cards, 1, k) \o TableSeq(before)
                          \o SubSeq(before.cards, k + 1, Len(before.cards))
        /\ now.discards = before.discards
        /\ ret = EmptyStr

\* C7. Round trip: draw() and then undraw() on a deck whose table was empty
\* and whose drawPile was not leaves the table empty, drawPile with the cards
\* it had before the draw, and discardPile as it was.
C7_RoundTrip ==
    (lastOp = "undraw" /\ before2.table = None /\ before2.cards # << >>) =>
        /\ now.table = None
        /\ BagOf(now.cards) = BagOf(before2.cards)
        /\ now.discards = before2.discards

C10_TableBound ==
    \A o \in DOMAIN heap :
        \/ heap[o].table = None
        \/ /\ heap[o].table \in DOMAIN heap[o].orig
           /\ Len(TableSeq(heap[o])) = 1

\* A card is on the table after an undiscard took the place of another.
C10_Witness ==
    /\ lastOp = "undiscard"
    /\ before.table # None
    /\ now.table # None
    /\ now.table # before.table

\* Whether get_color knows the kind of the colour c.
Supported(c) == c.type \in {"rgb", "theme", "indexed"}

\* C11, as claimed. A font or fill colour of an unsupported kind on any
\* first-row cell makes get_decks fail.
C11_AnyHeaderCell ==
    \A c \in DOMAIN heads :
        (~Supported(heads[c].font) \/ ~Supported(heads[c].fill)) => pc = "failed"

\* C11, amended. A font or fill colour of an unsupported kind on a first-row
\* cell that names a deck (its value is true for `if name:`) makes get_decks
\* fail: no collection is returned and the app is never started.
C11_DeckHeaderCell ==
    /\ \A c \in DOMAIN heads :
          (/\ CellTruthy(heads[c].value)
           /\ (~Supported(heads[c].font) \/ ~Supported(heads[c].fill)))
          => pc = "failed"
    /\ pc = "failed" => (lbl = << >> /\ lastOp = "none")

\* get_decks has failed on the colour of the second deck's header, after it
\* had built the first deck.
C11_Witness ==
    /\ pc = "failed"
    /\ heap # << >>
    /\ Len(heads) = 2
    /\ CellTruthy(heads[2].value)
    /\ ~Supported(heads[2].fill)

\* C12. get_color of a colour given as an 8-digit ARGB value is '#' and the
\* last six digits, but 'white' for 00000000.
C12_RgbResolution ==
    (lastOp = "get_color" /\ arg.type = "rgb") =>
        /\ ~res.exc
        /\ res.val = IF arg.rgb = <<"0","0","0","0","0","0","0","0">>
                     THEN <<"w","h","i","t","e">>
                     ELSE <<"#">> \o SubSeq(arg.rgb, 3, 8)

\* get_color has resolved 00102030 to #102030.
C12_Witness ==
    /\ lastOp = "get_color"
    /\ arg.type = "rgb"
    /\ arg.rgb = <<"0","0","1","0","2","0","3","0">>
    /\ res.val = <<"#","1","0","2","0","3","0">>

\* The cells of the column read last that are not empty.
NonEmptyCells == {i \in DOMAIN column : column[i] # NoneCell}

\* C13. A deck, when get_decks has built it, has one card per non-empty cell
\* below its header, the cell's value as a str with the quotes stripped, all
\* of them in drawPile; table and discardPile are empty.
C13_CardPopulation ==
    (pc = "ingest" /\ heads # << >> /\ CellTruthy(Last(heads).value)) =>
        /\ d = Len(heap)
        /\ Len(heap[d].cards) = Cardinality(NonEmptyCells)
        /\ \A i \in NonEmptyCells :
              Cardinality({k \in DOMAIN heap[d].cards :
                              heap[d].cards[k] = stripquotes(column[i])})
              = Cardinality({k \in NonEmptyCells :
                                stripquotes(column[k]) = stripquotes(column[i])})
        /\ heap[d].table = None
        /\ heap[d].discards = << >>

\* A deck has been built from a column with an empty cell, a cell holding
\* two quote characters and a number.
C13_Witness ==
    /\ pc = "ingest" /\ heads # << >> /\ CellTruthy(Last(heads).value)
    /\ \E i, k, m \in DOMAIN column :
          /\ column[i] = NoneCell
          /\ column[k] = StrCell(<<QUOTE, QUOTE>>)
          /\ column[m] = IntCell(7)
    /\ Len(heap[d].cards) = Len(column) - 1

\* C14. Display consistency: while the app runs, the table label of every
\* panel shows the label on the table of its deck, '' when it is empty.
C14_DisplayConsistency ==
    pc = "run" => \A i \in DOMAIN decks : lbl[i] = Shown(heap[decks[i]])

\* C15. stripquotes takes one pair of quotes off a text that begins and ends
\* with a quote, and returns any other text as it is.  (The text of one quote
\* character alone, which is its own beginning and end, is left out.)
C15_MatchingPair ==
    (lastOp = "stripquotes" /\ str(arg) # <<QUOTE>>) =>
        LET s == str(arg)
        IN res = IF Len(s) >= 2 /\ s[1] = QUOTE /\ s[Len(s)] = QUOTE
                 THEN SubSeq(s, 2, Len(s) - 1)
                 ELSE s

\* Whether the list b is the list a, or a without its last element, or a with
\* one element appended.
PopOrAppend(a, b) ==
    \/ b = a
    \/ a # << >> /\ b = SubSeq(a, 1, Len(a) - 1)
    \/ b # << >> /\ a = SubSeq(b, 1, Len(b) - 1)

\* C16. Every deck has been shuffled exactly once, when get_decks built it
\* and before it was added to the collection; a handler changes a pile only
\* by removing its last element or appending one element.
C16_ShuffleOnce ==
    /\ \A o \in DOMAIN heap : heap[o].shuffles = 1
    /\ \A i \in DOMAIN decks : decks[i] \in DOMAIN heap
    /\ lastOp # "none" =>
          /\ now.shuffles = before.shuffles
          /\ PopOrAppend(before.cards, now.cards)
          /\ PopOrAppend(before.discards, now.discards)

\* An undraw has put a card back on a draw pile that was not empty.
C16_Witness ==
    /\ lastOp = "undraw"
    /\ before.cards # << >>
    /\ Len(now.cards) = Len(before.cards) + 1
    /\ now.shuffles = 1

\* C17. get_color of a colour given as an index of the palette is '#' and the
\* last six digits of the palette's entry at that index.
C17_IndexedResolution ==
    (/\ lastOp = "get_color"
     /\ arg.type = "indexed"
     /\ arg.indexed + 1 \in DOMAIN COLOR_INDEX) =>
        /\ ~res.exc
        /\ res.val = <<"#">> \o SubSeq(COLOR_INDEX[arg.indexed + 1], 3, 8)

\* C18. Deck independence: a handler of the panel num leaves the deck of every
\* other panel as it was.
C18_Independence ==
    [][pc = "run" =>
         \A k \in DOMAIN decks : k # num' => heap'[decks[k]] = heap[decks[k]]]_vars

\* C19. No card of any deck has the label '', and a handler's call returns
\* '' exactly if it leaves the table empty.
C19_NonEmptyLabels ==
    /\ \A o \in DOMAIN heap :
          \A i \in DOMAIN Zones(heap[o]) : Zones(heap[o])[i] # EmptyStr
    /\ lastOp # "none" => (ret = EmptyStr <=> now.table = None)

\* s in reverse order.
Reverse(s) == [i \in 1..Len(s) |-> s[Len(s) + 1 - i]]

\* C20. Draws alone, from a fresh deck of n cards: the k-th draw, k <= n, puts
\* the k-th card from the end of the initial drawPile on the table and returns
\* it; the draw after the n-th returns '' and leaves drawPile and table empty
\* and discardPile with the n cards in the order drawn.
C20_Exhaustion ==
    streak # NoStreak =>
        LET f == streak.first.cards
            n == Len(f)
            k == Len(streak.rets)
        IN /\ \A m \in 1..k : m <= n => streak.rets[m] = f[n + 1 - m]
           /\ (k <= n) => now.table = f[n + 1 - k]
           /\ (k = n + 1) =>
                 /\ streak.rets[k] = EmptyStr
                 /\ now.cards = << >>
                 /\ now.table = None
                 /\ now.discards = Reverse(f)

====
